---------------------------- MODULE Spec2Model ----------------------------
(***************************************************************************)
(* Model of the Account facade of binance-rs-async (src/account.rs).       *)
(*                                                                         *)
(* Every facade operation is an async fn over `&self`: it optionally       *)
(* validates the request, builds a signed request, awaits one call of the  *)
(* HTTP client and decodes the body.  A task of the model is one caller    *)
(* holding a shared reference to one Account; tasks interleave at every    *)
(* stage.  Each task keeps the trace of the stages it has run, with the    *)
(* arguments handed to the validator, the signer, the HTTP client and the  *)
(* decoder.                                                                *)
(***************************************************************************)
EXTENDS Naturals, Sequences, FiniteSets

VARIABLES
    account,    \* the shared Account: client credentials and recv_window
    pc,         \* pc[t]: where task t stands in its operation
    op,         \* op[t]: the facade operation task t runs
    req,        \* req[t]: the argument of that operation
    trace,      \* trace[t]: the stages task t has run so far, in order
    request,    \* request[t]: the signed request task t holds, once built
    resp,       \* resp[t]: the raw body the HTTP client returned to task t
    result      \* result[t]: the Result the operation (or the inner call) produced

vars == <<account, pc, op, req, trace, request, resp, result>>

----------------------------------------------------------------------------
(* Bounds of the model *)

MaxTasks == 2
MaxBalances == 2

Tasks == 1..MaxTasks
Caller == CHOOSE t \in Tasks : \A u \in Tasks : t <= u

----------------------------------------------------------------------------
(* Option<T> and Result<T> *)

None == <<>>
Some(x) == <<x>>
is_some(o) == o # None
unwrap_or(o, d) == IF o = None THEN d ELSE o[1]

Ok(v) == [ok |-> TRUE, value |-> v]
Err(e) == [ok |-> FALSE, err |-> e]
Unit == <<>>
NoResult == [ok |-> FALSE, err |-> "pending"]

----------------------------------------------------------------------------
(* Endpoint paths *)

API_V3_ACCOUNT == "/api/v3/account"
API_V3_OPEN_ORDERS == "/api/v3/openOrders"
API_V3_ALL_ORDERS == "/api/v3/allOrders"
API_V3_MYTRADES == "/api/v3/myTrades"
API_V3_ORDER == "/api/v3/order"
API_VIRTUAL_SUB_ACCOUNT == "/sapi/v1/sub-account/virtualSubAccount"
API_V3_ORDER_TEST == "/api/v3/order/test"

RECV_WINDOW_LIMIT == 60000

----------------------------------------------------------------------------
(* Input domains *)

TimeInForce == {"GTC", "IOC", "FOK"}
OrderType == {"Limit", "Market"}
Symbols == {"BTCUSDT"}
Labels == {"sub1"}
HeldAssets == {"BTC", "USDT"}
AskedAssets == {"BTC", "ETH"}
Amounts == {1, 2}
OrderIds == {None, Some(1)}
ClientOrderIds == {None, Some("my_id")}
IcebergQtys == {None, Some(1)}
RequestRecvWindows == {None, Some(1000), Some(60001)}
AccountRecvWindows == {5000, 60000}

Accounts ==
    [client : [api_key : {"key"}, secret_key : {"secret"}],
     recv_window : AccountRecvWindows]

OrderRequests ==
    [kind : {"OrderRequest"}, symbol : Symbols, order_type : OrderType,
     time_in_force : {None} \cup {Some(x) : x \in TimeInForce},
     iceberg_qty : IcebergQtys, recv_window : RequestRecvWindows]

OrderCancellations ==
    [kind : {"OrderCancellation"}, symbol : Symbols, order_id : OrderIds,
     orig_client_order_id : ClientOrderIds, recv_window : RequestRecvWindows]

OrderStatusRequests ==
    [kind : {"OrderStatusRequest"}, symbol : Symbols, order_id : OrderIds,
     orig_client_order_id : ClientOrderIds, recv_window : RequestRecvWindows]

OrdersQueries ==
    [kind : {"OrdersQuery"}, symbol : Symbols, order_id : OrderIds,
     recv_window : RequestRecvWindows]

NoArgs == {[kind |-> "NoArgs"]}
SymbolArgs == [kind : {"Symbol"}, symbol : Symbols]
AssetArgs == [kind : {"Asset"}, asset : AskedAssets]
LabelArgs == [kind : {"Label"}, label : Labels]
NoReq == [kind |-> "none"]

Operations ==
    {"get_account", "get_balance", "get_open_orders", "get_all_orders",
     "get_all_open_orders", "cancel_all_open_orders", "order_status",
     "test_order_status", "place_order", "place_test_order", "cancel_order",
     "test_cancel_order", "trade_history", "create_sub_account"}

Requests(o) ==
    CASE o \in {"place_order", "place_test_order"} -> OrderRequests
      [] o \in {"cancel_order", "test_cancel_order"} -> OrderCancellations
      [] o \in {"order_status", "test_order_status"} -> OrderStatusRequests
      [] o = "get_all_orders" -> OrdersQueries
      [] o \in {"get_open_orders", "cancel_all_open_orders", "trade_history"} -> SymbolArgs
      [] o = "get_balance" -> AssetArgs
      [] o = "create_sub_account" -> LabelArgs
      [] OTHER -> NoArgs

\* The operations and arguments of the concurrent callers.
SharedOperations == {"cancel_order", "place_order", "get_all_open_orders"}

SharedRequests(o) ==
    CASE o = "cancel_order" ->
           {r \in OrderCancellations :
               /\ r.order_id = Some(1) /\ r.orig_client_order_id = None
               /\ r.recv_window # Some(60001)}
      [] o = "place_order" ->
           {r \in OrderRequests :
               /\ r.order_type = "Limit" /\ r.recv_window = None
               /\ r.time_in_force \in {Some("GTC"), Some("IOC")}}
      [] OTHER -> Requests(o)

----------------------------------------------------------------------------
(* OrderRequest::valid *)

\* Variant: the time-in-force rule applied to every order, iceberg or not.
valid_requires_gtc(order) ==
    IF order.time_in_force # Some("GTC")
    THEN Err("InvalidOrderError")
    ELSE Ok(Unit)

valid(order) ==
    IF is_some(order.iceberg_qty) /\ order.time_in_force # Some("GTC")
    THEN Err("InvalidOrderError")
    ELSE Ok(Unit)

----------------------------------------------------------------------------
(* The facade operations, one CASE arm per async fn of impl Account *)

\* get_balance awaits self.get_account() and runs no pipeline of its own.
Callee(o) == IF o = "get_balance" THEN "get_account" ELSE o

\* Variant: the test path skips the validator.
ValidationLiveOnly(o, r) ==
    CASE o = "place_order" -> <<valid(r)>>
      [] OTHER -> <<>>

\* Variant: a cancellation must name the order by at least one identifier.
ValidationStrictCancel(o, r) ==
    CASE o \in {"place_order", "place_test_order"} -> <<valid(r)>>
      [] o \in {"cancel_order", "test_cancel_order"} ->
           <<IF r.order_id = None /\ r.orig_client_order_id = None
             THEN Err("InvalidOrderError")
             ELSE Ok(Unit)>>
      [] OTHER -> <<>>

\* `order.valid()?` opens place_order and place_test_order; no other
\* operation checks its argument.  The value is the list of validator results.
Validation(o, r) ==
    CASE o = "place_order" -> <<valid(r)>>
      [] o = "place_test_order" -> <<valid(r)>>
      [] OTHER -> <<>>

\* The first argument of build_signed_request / build_signed_request_p.
Params(o, r) ==
    CASE o = "get_account" -> <<>>
      [] o = "get_open_orders" -> [symbol |-> r.symbol]
      [] o = "get_all_orders" -> r
      [] o = "get_all_open_orders" -> <<>>
      [] o = "cancel_all_open_orders" -> [symbol |-> r.symbol]
      [] o = "order_status" -> r
      [] o = "test_order_status" -> r
      [] o = "place_order" -> r
      [] o = "place_test_order" -> r
      [] o = "cancel_order" -> r
      [] o = "test_cancel_order" -> r
      [] o = "trade_history" -> [symbol |-> r.symbol]
      [] o = "create_sub_account" -> [sub_account_string |-> r.label]

\* Variant: test_cancel_order signs with the Account's window only.
RecvWindowTestCancelDefault(o, self, r) ==
    IF o \in {"get_all_orders", "order_status", "test_order_status",
              "place_order", "place_test_order", "cancel_order"}
    THEN unwrap_or(r.recv_window, self.recv_window)
    ELSE self.recv_window

\* Variant: get_all_orders lets the Account's window override the query's.
RecvWindowQueryIgnored(o, self, r) ==
    IF o \in {"order_status", "test_order_status", "place_order",
              "place_test_order", "cancel_order", "test_cancel_order"}
    THEN unwrap_or(r.recv_window, self.recv_window)
    ELSE self.recv_window

\* The second argument of build_signed_request / build_signed_request_p.
RecvWindow(o, self, r) ==
    CASE o = "get_account" -> self.recv_window
      [] o = "get_open_orders" -> self.recv_window
      [] o = "get_all_orders" -> unwrap_or(r.recv_window, self.recv_window)
      [] o = "get_all_open_orders" -> self.recv_window
      [] o = "cancel_all_open_orders" -> self.recv_window
      [] o = "order_status" -> unwrap_or(r.recv_window, self.recv_window)
      [] o = "test_order_status" -> unwrap_or(r.recv_window, self.recv_window)
      [] o = "place_order" -> unwrap_or(r.recv_window, self.recv_window)
      [] o = "place_test_order" -> unwrap_or(r.recv_window, self.recv_window)
      [] o = "cancel_order" -> unwrap_or(r.recv_window, self.recv_window)
      [] o = "test_cancel_order" -> unwrap_or(r.recv_window, self.recv_window)
      [] o = "trade_history" -> self.recv_window
      [] o = "create_sub_account" -> self.recv_window

\* The client method awaited: get_signed, post_signed or delete_signed.
Verb(o) ==
    CASE o = "get_account" -> "GET"
      [] o = "get_open_orders" -> "GET"
      [] o = "get_all_orders" -> "GET"
      [] o = "get_all_open_orders" -> "GET"
      [] o = "cancel_all_open_orders" -> "DELETE"
      [] o = "order_status" -> "GET"
      [] o = "test_order_status" -> "GET"
      [] o = "place_order" -> "POST"
      [] o = "place_test_order" -> "POST"
      [] o = "cancel_order" -> "DELETE"
      [] o = "test_cancel_order" -> "DELETE"
      [] o = "trade_history" -> "GET"
      [] o = "create_sub_account" -> "POST"

\* Variant: get_all_open_orders reads the allOrders endpoint.
PathAllOpenOrdersSwapped(o) ==
    CASE o = "get_account" -> API_V3_ACCOUNT
      [] o = "get_open_orders" -> API_V3_OPEN_ORDERS
      [] o = "get_all_orders" -> API_V3_ALL_ORDERS
      [] o = "get_all_open_orders" -> API_V3_ALL_ORDERS
      [] o = "cancel_all_open_orders" -> API_V3_OPEN_ORDERS
      [] o = "order_status" -> API_V3_ORDER
      [] o = "test_order_status" -> API_V3_ORDER_TEST
      [] o = "place_order" -> API_V3_ORDER
      [] o = "place_test_order" -> API_V3_ORDER_TEST
      [] o = "cancel_order" -> API_V3_ORDER
      [] o = "test_cancel_order" -> API_V3_ORDER_TEST
      [] o = "trade_history" -> API_V3_MYTRADES
      [] o = "create_sub_account" -> API_VIRTUAL_SUB_ACCOUNT

\* The endpoint handed to the client method.
Path(o) ==
    CASE o = "get_account" -> API_V3_ACCOUNT
      [] o = "get_open_orders" -> API_V3_OPEN_ORDERS
      [] o = "get_all_orders" -> API_V3_ALL_ORDERS
      [] o = "get_all_open_orders" -> API_V3_OPEN_ORDERS
      [] o = "cancel_all_open_orders" -> API_V3_OPEN_ORDERS
      [] o = "order_status" -> API_V3_ORDER
      [] o = "test_order_status" -> API_V3_ORDER_TEST
      [] o = "place_order" -> API_V3_ORDER
      [] o = "place_test_order" -> API_V3_ORDER_TEST
      [] o = "cancel_order" -> API_V3_ORDER
      [] o = "test_cancel_order" -> API_V3_ORDER_TEST
      [] o = "trade_history" -> API_V3_MYTRADES
      [] o = "create_sub_account" -> API_VIRTUAL_SUB_ACCOUNT

\* The type the body is decoded into.
ResponseType(o) ==
    CASE o = "get_account" -> "AccountInformation"
      [] o = "get_open_orders" -> "Vec<Order>"
      [] o = "get_all_orders" -> "Vec<Order>"
      [] o = "get_all_open_orders" -> "Vec<Order>"
      [] o = "cancel_all_open_orders" -> "Vec<Order>"
      [] o = "order_status" -> "Order"
      [] o = "test_order_status" -> "TestResponse"
      [] o = "place_order" -> "Transaction"
      [] o = "place_test_order" -> "TestResponse"
      [] o = "cancel_order" -> "OrderCanceled"
      [] o = "test_cancel_order" -> "TestResponse"
      [] o = "trade_history" -> "Vec<TradeHistory>"
      [] o = "create_sub_account" -> "SubAccountCreationResp"

----------------------------------------------------------------------------
(* Collaborators: the signer, the HTTP client and the JSON decoder *)

\* build_signed_request(_p): the signed query, or an error when signing is
\* impossible.  `signable` is the environment's side of the call.
build_signed_request(parameters, recv_window, signable) ==
    IF signable
    THEN Ok([params |-> parameters, recvWindow |-> recv_window])
    ELSE Err("SignError")

Balance == [asset : HeldAssets, free : Amounts]
BalanceLists == UNION {[1..n -> Balance] : n \in 0..MaxBalances}

\* The bodies the exchange may answer with: of the expected shape or not.
Bodies(ty) ==
    {[kind |-> "garbage"]} \cup
    (IF ty = "AccountInformation"
     THEN [kind : {ty}, balances : BalanceLists]
     ELSE {[kind |-> ty]})

\* What get_signed / post_signed / delete_signed may return.
Responses(o) ==
    {Err("TransportError"), Err("ApiError")} \cup
    {Ok(b) : b \in Bodies(ResponseType(o))}

\* serde_json::from_str::<T>(data)
from_str(ty, data) == IF data.kind = ty THEN Ok(data) ELSE Err("DecodeError")

----------------------------------------------------------------------------
(* get_balance: the scan of account.balances *)

\* Variant: the scan keeps the last matching entry instead of the first.
find_balance_last(balances, cmp_asset, i) ==
    LET found == {j \in i..Len(balances) : balances[j].asset = cmp_asset} IN
    IF found = {} THEN Err("Asset not found")
    ELSE Ok(balances[CHOOSE j \in found : \A k \in found : k <= j])

RECURSIVE find_balance(_, _, _)
find_balance(balances, cmp_asset, i) ==
    IF i > Len(balances) THEN Err("Asset not found")
    ELSE IF balances[i].asset = cmp_asset THEN Ok(balances[i])
    ELSE find_balance(balances, cmp_asset, i + 1)

get_balance_match(r, asset) ==
    IF r.ok THEN find_balance(r.value.balances, asset, 1) ELSE r

----------------------------------------------------------------------------
(* State machine *)

NoBody == [kind |-> "none"]
NoRequest == [params |-> <<>>, recvWindow |-> 0]

Init ==
    /\ account \in Accounts
    /\ pc = [t \in Tasks |-> "idle"]
    /\ op = [t \in Tasks |-> "none"]
    /\ req = [t \in Tasks |-> NoReq]
    /\ trace = [t \in Tasks |-> <<>>]
    /\ request = [t \in Tasks |-> NoRequest]
    /\ resp = [t \in Tasks |-> NoBody]
    /\ result = [t \in Tasks |-> NoResult]

\* A pipeline ends with r: the operation returns it, except that inside
\* get_balance it is the value of `self.get_account().await`.
Returns(t, o, r) ==
    /\ pc' = [pc EXCEPT ![t] = IF o = "get_balance" THEN "matching" ELSE "done"]
    /\ result' = [result EXCEPT ![t] = r]

\* Task t enters operation o with argument r; the order operations validate
\* first, and a failed validation returns at once.
Invoke(t, o, r) ==
    LET v == Validation(o, r) IN
    /\ pc[t] = "idle"
    /\ op' = [op EXCEPT ![t] = o]
    /\ req' = [req EXCEPT ![t] = r]
    /\ trace' = [trace EXCEPT ![t] =
           [i \in 1..Len(v) |-> [stage |-> "validate", call |-> [order |-> r]]]]
    /\ IF \E i \in 1..Len(v) : ~v[i].ok
       THEN Returns(t, o, v[CHOOSE i \in 1..Len(v) : ~v[i].ok])
       ELSE /\ pc' = [pc EXCEPT ![t] = "validated"]
            /\ UNCHANGED result
    /\ UNCHANGED <<account, request, resp>>

\* A caller calls any operation with any argument.
Call(t) == \E o \in Operations : \E r \in Requests(o) : Invoke(t, o, r)

\* A caller sharing the Account with others calls one of the shared operations.
CallShared(t) == \E o \in SharedOperations : \E r \in SharedRequests(o) : Invoke(t, o, r)

\* Variant: signing stores the window it used in the shared Account.
SignRemembersWindow(t) ==
    /\ pc[t] = "validated"
    /\ \E signable \in BOOLEAN :
         LET o == Callee(op[t])
             parameters == Params(o, req[t])
             recv_window == RecvWindow(o, account, req[t])
             signed == build_signed_request(parameters, recv_window, signable)
         IN /\ trace' = [trace EXCEPT ![t] = Append(@,
                   [stage |-> "sign",
                    call |-> [params |-> parameters, recv_window |-> recv_window]])]
            /\ account' = [account EXCEPT !.recv_window = recv_window]
            /\ IF signed.ok
               THEN /\ request' = [request EXCEPT ![t] = signed.value]
                    /\ pc' = [pc EXCEPT ![t] = "signed"]
                    /\ UNCHANGED result
               ELSE /\ Returns(t, op[t], signed)
                    /\ UNCHANGED request
    /\ UNCHANGED <<op, req, resp>>

\* let request = build_signed_request(..., recv_window)?;
Sign(t) ==
    /\ pc[t] = "validated"
    /\ \E signable \in BOOLEAN :
         LET o == Callee(op[t])
             parameters == Params(o, req[t])
             recv_window == RecvWindow(o, account, req[t])
             signed == build_signed_request(parameters, recv_window, signable)
         IN /\ trace' = [trace EXCEPT ![t] = Append(@,
                   [stage |-> "sign",
                    call |-> [params |-> parameters, recv_window |-> recv_window]])]
            /\ IF signed.ok
               THEN /\ request' = [request EXCEPT ![t] = signed.value]
                    /\ pc' = [pc EXCEPT ![t] = "signed"]
                    /\ UNCHANGED result
               ELSE /\ Returns(t, op[t], signed)
                    /\ UNCHANGED request
    /\ UNCHANGED <<account, op, req, resp>>

\* self.client.<verb>_signed(PATH, &request) is called and awaited.
Send(t) ==
    /\ pc[t] = "signed"
    /\ LET o == Callee(op[t]) IN
         trace' = [trace EXCEPT ![t] = Append(@,
             [stage |-> "http",
              call |-> [verb |-> Verb(o), path |-> Path(o), request |-> request[t]]])]
    /\ pc' = [pc EXCEPT ![t] = "awaiting"]
    /\ UNCHANGED <<account, op, req, request, resp, result>>

\* Variant: a transport error is retried instead of returned.
ReceiveWithRetry(t) ==
    /\ pc[t] = "awaiting"
    /\ \E r \in Responses(Callee(op[t])) :
         IF r.ok
         THEN /\ resp' = [resp EXCEPT ![t] = r.value]
              /\ pc' = [pc EXCEPT ![t] = "received"]
              /\ UNCHANGED result
         ELSE IF r.err = "TransportError"
         THEN /\ pc' = [pc EXCEPT ![t] = "signed"]
              /\ UNCHANGED <<resp, result>>
         ELSE /\ Returns(t, op[t], r)
              /\ UNCHANGED resp
    /\ UNCHANGED <<account, op, req, trace, request>>

\* The await completes: `.await?`
Receive(t) ==
    /\ pc[t] = "awaiting"
    /\ \E r \in Responses(Callee(op[t])) :
         IF r.ok
         THEN /\ resp' = [resp EXCEPT ![t] = r.value]
              /\ pc' = [pc EXCEPT ![t] = "received"]
              /\ UNCHANGED result
         ELSE /\ Returns(t, op[t], r)
              /\ UNCHANGED resp
    /\ UNCHANGED <<account, op, req, trace, request>>

\* let x: T = from_str(data.as_str())?; Ok(x)
Decode(t) ==
    /\ pc[t] = "received"
    /\ LET ty == ResponseType(Callee(op[t])) IN
         /\ trace' = [trace EXCEPT ![t] = Append(@,
                [stage |-> "decode", call |-> [as |-> ty]])]
         /\ Returns(t, op[t], from_str(ty, resp[t]))
    /\ UNCHANGED <<account, op, req, request, resp>>

\* get_balance: match self.get_account().await { Ok(account) => scan, Err(e) => Err(e) }
Match(t) ==
    /\ pc[t] = "matching"
    /\ result' = [result EXCEPT ![t] = get_balance_match(@, req[t].asset)]
    /\ pc' = [pc EXCEPT ![t] = "done"]
    /\ UNCHANGED <<account, op, req, trace, request, resp>>

\* The caller takes the result; the task may call again.
Return(t) ==
    /\ pc[t] = "done"
    /\ pc' = [pc EXCEPT ![t] = "idle"]
    /\ op' = [op EXCEPT ![t] = "none"]
    /\ req' = [req EXCEPT ![t] = NoReq]
    /\ trace' = [trace EXCEPT ![t] = <<>>]
    /\ request' = [request EXCEPT ![t] = NoRequest]
    /\ resp' = [resp EXCEPT ![t] = NoBody]
    /\ result' = [result EXCEPT ![t] = NoResult]
    /\ UNCHANGED account

\* One caller at a time: every operation, every argument.
Next ==
    \/ Call(Caller)
    \/ Sign(Caller)
    \/ Send(Caller)
    \/ Receive(Caller)
    \/ Decode(Caller)
    \/ Match(Caller)
    \/ Return(Caller)

\* Concurrent callers on one shared Account.
SharedNext ==
    \E t \in Tasks :
        \/ CallShared(t)
        \/ Sign(t)
        \/ Send(t)
        \/ Receive(t)
        \/ Decode(t)
        \/ Return(t)

Spec == Init /\ [][Next]_vars

SharedSpec == Init /\ [][SharedNext]_vars

----------------------------------------------------------------------------
(* Vocabulary of the properties *)

OrderOps == {"place_order", "place_test_order"}
CancelOps == {"cancel_order", "test_cancel_order"}
StatusOps == {"order_status", "test_order_status"}
RequestStructOps == OrderOps \cup CancelOps \cup StatusOps \cup {"get_all_orders"}
FacadeWindowOps ==
    {"get_account", "get_open_orders", "get_all_open_orders",
     "cancel_all_open_orders", "trade_history", "create_sub_account"}

\* The positions of task t's trace that hold stage s.
At(t, s) == {i \in DOMAIN trace[t] : trace[t][i].stage = s}
Ran(t, s) == At(t, s) # {}
Failed(t, e) == ~result[t].ok /\ result[t].err = e

\* Task t is on its way through signing and dispatch: nothing but a failure
\* of the signer stands between entering the operation and the HTTP call.
SignedAndSent(t) ==
    /\ pc[t] = "validated" \/ Ran(t, "sign")
    /\ Ran(t, "sign") => (Failed(t, "SignError") \/ pc[t] = "signed" \/ Ran(t, "http"))

\* The order breaks the iceberg rule.
IcebergWithoutGTC(r) == r.iceberg_qty # None /\ r.time_in_force # Some("GTC")

----------------------------------------------------------------------------
\* C1 (validation gate): an order with iceberg_qty present and time_in_force
\* other than GTC (absent included) makes place_order and place_test_order
\* return InvalidOrderError, and neither the signer nor the HTTP client is
\* ever called for it.
C1_ValidationGate ==
    \A t \in Tasks :
        (op[t] \in OrderOps /\ IcebergWithoutGTC(req[t])) =>
            /\ pc[t] = "done"
            /\ Failed(t, "InvalidOrderError")
            /\ ~Ran(t, "sign")
            /\ ~Ran(t, "http")

C1_Witness ==
    \E t \in Tasks :
        /\ op[t] = "place_test_order"
        /\ req[t].iceberg_qty = Some(1)
        /\ req[t].time_in_force = None
        /\ pc[t] = "done"
        /\ Failed(t, "InvalidOrderError")

----------------------------------------------------------------------------
\* C3 (receive-window precedence): an operation that takes a request struct
\* signs with the request's recv_window when it is present and with the
\* Account's recv_window when it is absent; an operation without a request
\* struct always signs with the Account's recv_window.
C3_RecvWindowPrecedence ==
    \A t \in Tasks : \A i \in At(t, "sign") :
        LET used == trace[t][i].call.recv_window IN
        /\ op[t] \in RequestStructOps =>
              IF req[t].recv_window # None
              THEN used = req[t].recv_window[1]
              ELSE used = account.recv_window
        /\ op[t] \in FacadeWindowOps => used = account.recv_window

C3_Witness ==
    \E t \in Tasks :
        /\ op[t] = "get_all_orders"
        /\ req[t].recv_window = Some(1000)
        /\ account.recv_window = 5000
        /\ \E i \in At(t, "sign") : trace[t][i].call.recv_window = 1000
        /\ Ran(t, "http")

----------------------------------------------------------------------------
\* C5 (verb and endpoint table): every call of the HTTP client uses the verb
\* and the fixed path that the table of operations gives for the operation.
TableVerb(o) ==
    CASE o \in {"get_account", "get_open_orders", "get_all_open_orders",
                "get_all_orders", "order_status", "test_order_status",
                "trade_history"} -> "GET"
      [] o \in {"place_order", "place_test_order", "create_sub_account"} -> "POST"
      [] o \in {"cancel_all_open_orders", "cancel_order", "test_cancel_order"} -> "DELETE"

TablePath(o) ==
    CASE o = "get_account" -> "/api/v3/account"
      [] o \in {"get_open_orders", "get_all_open_orders",
                "cancel_all_open_orders"} -> "/api/v3/openOrders"
      [] o = "get_all_orders" -> "/api/v3/allOrders"
      [] o \in {"order_status", "place_order", "cancel_order"} -> "/api/v3/order"
      [] o \in {"test_order_status", "place_test_order",
                "test_cancel_order"} -> "/api/v3/order/test"
      [] o = "trade_history" -> "/api/v3/myTrades"
      [] o = "create_sub_account" -> "/sapi/v1/sub-account/virtualSubAccount"

C5_VerbAndEndpoint ==
    \A t \in Tasks : \A i \in At(t, "http") :
        op[t] \in RequestStructOps \cup FacadeWindowOps =>
            /\ trace[t][i].call.verb = TableVerb(op[t])
            /\ trace[t][i].call.path = TablePath(op[t])

C5_Witness ==
    \E t \in Tasks :
        /\ op[t] = "cancel_all_open_orders"
        /\ \E i \in At(t, "http") :
              /\ trace[t][i].call.verb = "DELETE"
              /\ trace[t][i].call.path = "/api/v3/openOrders"

----------------------------------------------------------------------------
\* C9 (validator rule set): place_order and place_test_order reject an order
\* if and only if iceberg_qty is present and time_in_force is not GTC; every
\* other order goes on to signing and dispatch, and the order that is signed
\* is the order that was passed in.
C9_ValidatorRuleSet ==
    \A t \in Tasks :
        op[t] \in OrderOps =>
            /\ Failed(t, "InvalidOrderError") <=> IcebergWithoutGTC(req[t])
            /\ \A i \in At(t, "validate") : trace[t][i].call.order = req[t]
            /\ ~IcebergWithoutGTC(req[t]) =>
                  /\ SignedAndSent(t)
                  /\ \A i \in At(t, "sign") : trace[t][i].call.params = req[t]
                  /\ \A i \in At(t, "http") : trace[t][i].call.request.params = req[t]

C9_Witness ==
    \E t \in Tasks :
        /\ op[t] = "place_order"
        /\ req[t].iceberg_qty = None
        /\ req[t].time_in_force = Some("FOK")
        /\ req[t].order_type = "Market"
        /\ Ran(t, "http")

----------------------------------------------------------------------------
\* C10 (permissive cancellation): cancel_order and test_cancel_order check
\* nothing locally; whatever order_id and orig_client_order_id hold, the
\* cancellation is signed and sent with DELETE, and the only errors are those
\* of the signer, the HTTP client and the decoder.
C10_PermissiveCancel ==
    \A t \in Tasks :
        op[t] \in CancelOps =>
            /\ ~Ran(t, "validate")
            /\ SignedAndSent(t)
            /\ \A i \in At(t, "sign") : trace[t][i].call.params = req[t]
            /\ \A i \in At(t, "http") : trace[t][i].call.verb = "DELETE"
            /\ ~result[t].ok =>
                  result[t].err \in {"pending", "SignError", "TransportError",
                                     "ApiError", "DecodeError"}

C10_Witness ==
    \E t \in Tasks :
        /\ op[t] = "cancel_order"
        /\ req[t].order_id = None
        /\ req[t].orig_client_order_id = None
        /\ \E i \in At(t, "http") : trace[t][i].call.verb = "DELETE"

----------------------------------------------------------------------------
\* C2 (live/test symmetry): a live operation and its test counterpart take
\* the same validation decision on the same request, hand the same parameters
\* and the same receive-window to the signer and use the same HTTP verb; the
\* dispatched calls differ only in the path, /api/v3/order against
\* /api/v3/order/test.  What a task running one operation of a pair did is
\* compared with what the other operation of the pair does on that request.
LiveOps == {"place_order", "cancel_order", "order_status"}
TestOps == {"place_test_order", "test_cancel_order", "test_order_status"}

Counterpart(o) ==
    CASE o = "place_order" -> "place_test_order"
      [] o = "place_test_order" -> "place_order"
      [] o = "cancel_order" -> "test_cancel_order"
      [] o = "test_cancel_order" -> "cancel_order"
      [] o = "order_status" -> "test_order_status"
      [] o = "test_order_status" -> "order_status"

C2_LiveTestSymmetry ==
    \A t \in Tasks :
        op[t] \in LiveOps \cup TestOps =>
            LET other == Counterpart(op[t])
                v == Validation(other, req[t])
            IN /\ Ran(t, "validate") <=> v # <<>>
               /\ Failed(t, "InvalidOrderError") <=> \E i \in DOMAIN v : ~v[i].ok
               /\ \A i \in At(t, "sign") :
                     /\ trace[t][i].call.params = Params(other, req[t])
                     /\ trace[t][i].call.recv_window = RecvWindow(other, account, req[t])
               /\ \A i \in At(t, "http") :
                     /\ trace[t][i].call.verb = Verb(other)
                     /\ trace[t][i].call.request.params = Params(other, req[t])
                     /\ trace[t][i].call.request.recvWindow =
                            RecvWindow(other, account, req[t])
                     /\ trace[t][i].call.path =
                            (IF op[t] \in LiveOps THEN "/api/v3/order"
                                                  ELSE "/api/v3/order/test")
                     /\ Path(other) =
                            (IF op[t] \in LiveOps THEN "/api/v3/order/test"
                                                  ELSE "/api/v3/order")

C2_Witness ==
    \E t \in Tasks :
        /\ op[t] = "cancel_order"
        /\ req[t].recv_window = Some(1000)
        /\ req[t].order_id = Some(1)
        /\ \E i \in At(t, "http") : trace[t][i].call.path = "/api/v3/order"

----------------------------------------------------------------------------
\* C6 (linear pipeline, no retry): the stages of an operation run in the
\* order validate (order placement only), sign, HTTP call, decode; an HTTP
\* call follows a signing and a decoding follows an HTTP call; a stage that
\* fails ends the operation with its error, so that no later stage has run
\* while the error stands; a signing failure leaves no HTTP call, and the HTTP
\* client is called at most once per operation.
Rank(s) ==
    CASE s = "validate" -> 1
      [] s = "sign" -> 2
      [] s = "http" -> 3
      [] s = "decode" -> 4

StageOfError(e) ==
    CASE e = "InvalidOrderError" -> "validate"
      [] e = "SignError" -> "sign"
      [] e \in {"TransportError", "ApiError"} -> "http"
      [] e = "DecodeError" -> "decode"

StageErrors ==
    {"InvalidOrderError", "SignError", "TransportError", "ApiError", "DecodeError"}

C6_LinearPipeline ==
    \A t \in Tasks :
        LET n == Len(trace[t]) IN
        /\ \A i, j \in 1..n :
              i < j => Rank(trace[t][i].stage) < Rank(trace[t][j].stage)
        /\ Ran(t, "validate") => op[t] \in OrderOps
        /\ op[t] \in OrderOps => trace[t][1].stage = "validate"
        /\ \A i \in At(t, "http") : i > 1 /\ trace[t][i - 1].stage = "sign"
        /\ \A i \in At(t, "decode") : i > 1 /\ trace[t][i - 1].stage = "http"
        /\ Cardinality(At(t, "http")) <= 1
        /\ \A e \in StageErrors :
              Failed(t, e) =>
                  /\ pc[t] \in {"done", "matching"}
                  /\ n >= 1
                  /\ trace[t][n].stage = StageOfError(e)
        /\ Failed(t, "SignError") => ~Ran(t, "http")

C6_Witness ==
    \E t \in Tasks :
        /\ op[t] = "place_order"
        /\ pc[t] = "done"
        /\ Failed(t, "TransportError")
        /\ Len(trace[t]) = 3
        /\ trace[t][3].stage = "http"

----------------------------------------------------------------------------
\* C7 (receive-window bound): the receive-window with which a request of
\* place_order, place_test_order, cancel_order, test_cancel_order,
\* order_status, test_order_status or get_all_orders is signed and sent never
\* exceeds 60000.
C7_RecvWindowBound ==
    \A t \in Tasks :
        op[t] \in RequestStructOps =>
            \A i \in At(t, "http") :
                /\ \A j \in At(t, "sign") :
                      trace[t][j].call.recv_window <= RECV_WINDOW_LIMIT
                /\ trace[t][i].call.request.recvWindow <= RECV_WINDOW_LIMIT

----------------------------------------------------------------------------
\* C4 (balance lookup).  get_balance calls the HTTP client at most once, with
\* GET on /api/v3/account, and exactly once unless signing failed; when the
\* account call succeeds it returns the first entry of the account's balances
\* whose asset is the requested one, and the error "Asset not found" when
\* there is none; when the account call fails it returns that error
\* unchanged.
MatchingEntries(balances, asset) ==
    {i \in DOMAIN balances : balances[i].asset = asset}

FirstOf(S) == CHOOSE i \in S : \A j \in S : i <= j

AccountCallSucceeded(t) ==
    Ran(t, "decode") /\ resp[t].kind = "AccountInformation"

\* The lookup itself, in a state where get_balance has returned.
LookupResult(t) ==
    IF AccountCallSucceeded(t)
    THEN LET found == MatchingEntries(resp[t].balances, req[t].asset) IN
         IF found # {}
         THEN result[t] = Ok(resp[t].balances[FirstOf(found)])
         ELSE Failed(t, "Asset not found")
    ELSE /\ ~result[t].ok
         /\ result[t].err \in {"SignError", "TransportError", "ApiError", "DecodeError"}

OnlyTheAccountCall(t) ==
    /\ Cardinality(At(t, "http")) <= 1
    /\ \A i \in At(t, "http") :
          /\ trace[t][i].call.verb = "GET"
          /\ trace[t][i].call.path = "/api/v3/account"

\* The error of the account call is the error get_balance returns.
ErrorPassedOn(t) ==
    (pc[t] = "matching" /\ ~result[t].ok /\ pc'[t] = "done")
        => result'[t] = result[t]

C4_BalanceLookup ==
    [][\A t \in Tasks :
          /\ ErrorPassedOn(t)
          /\ op'[t] = "get_balance" =>
                /\ OnlyTheAccountCall(t)'
                /\ pc'[t] = "done" =>
                      /\ LookupResult(t)'
                      /\ (Cardinality(At(t, "http")) = 1)' <=> ~Failed(t, "SignError")'
      ]_vars

\* C4 as first stated: exactly one HTTP call in every execution of get_balance.
C4_ExactlyOneCall ==
    [][\A t \in Tasks :
          /\ ErrorPassedOn(t)
          /\ op'[t] = "get_balance" =>
                /\ OnlyTheAccountCall(t)'
                /\ pc'[t] = "done" =>
                      /\ LookupResult(t)'
                      /\ (Cardinality(At(t, "http")) = 1)'
      ]_vars

C4_Witness ==
    \E t \in Tasks :
        /\ op[t] = "get_balance"
        /\ pc[t] = "done"
        /\ req[t].asset = "BTC"
        /\ resp[t].kind = "AccountInformation"
        /\ Len(resp[t].balances) = 2
        /\ resp[t].balances[1] = [asset |-> "BTC", free |-> 2]
        /\ resp[t].balances[2] = [asset |-> "BTC", free |-> 1]
        /\ result[t] = Ok([asset |-> "BTC", free |-> 2])
        /\ Cardinality(At(t, "http")) = 1

----------------------------------------------------------------------------
\* C8 (stateless sharing): whatever the interleaving of concurrent operations
\* on one Account, no step changes the Account, every task hands the signer
\* and the HTTP client what its own operation and argument determine, and no
\* call is held back or rejected on account of another: two concurrent
\* cancel_order calls for the same order id are both dispatched.
OwnDispatch(t) ==
    LET o == Callee(op[t])
        signed == [params |-> Params(o, req[t]),
                   recvWindow |-> RecvWindow(o, account, req[t])]
    IN /\ \A i \in At(t, "sign") :
             trace[t][i].call =
                 [params |-> signed.params, recv_window |-> signed.recvWindow]
       /\ \A i \in At(t, "http") :
             trace[t][i].call =
                 [verb |-> Verb(o), path |-> Path(o), request |-> signed]

NoLocalRejection(t) ==
    /\ ~result[t].ok => result[t].err \in StageErrors \cup {"pending"}
    /\ op[t] = "cancel_order" => SignedAndSent(t)

C8_StatelessSharing ==
    [][/\ account' = account
       /\ \A t \in Tasks : OwnDispatch(t)' /\ NoLocalRejection(t)'
      ]_vars

C8_Witness ==
    \E t1, t2 \in Tasks :
        /\ t1 # t2
        /\ op[t1] = "cancel_order" /\ op[t2] = "cancel_order"
        /\ req[t1].order_id = Some(1) /\ req[t2].order_id = Some(1)
        /\ pc[t1] = "awaiting" /\ pc[t2] = "awaiting"
        /\ Ran(t1, "http") /\ Ran(t2, "http")

=============================================================================
